---- MODULE Spec2Model ----
(***************************************************************************)
(* A model of pubmed-affiliation-filter: the rate-limited PubMed client    *)
(* (api.py, class PubMedAPI), the record extraction helpers of the same    *)
(* class, and the affiliation classifier (filters.py).                     *)
(*                                                                         *)
(* Text is a sequence of one-character strings.  The four non-ASCII        *)
(* characters the model knows are named by their code points.  Time is an  *)
(* integer number of clock ticks; the clock is the one time.time() reads.  *)
(*                                                                         *)
(* Four specifications share the definitions:                              *)
(*   Spec          one PubMedAPI object: construction, the three public    *)
(*                 operations, the rate-limit wait, a clock that advances  *)
(*   SpecData      fetch_and_filter_papers over every batch of Papers      *)
(*   SpecExtract   the four _extract_* helpers applied to one article      *)
(*   SpecClassify  is_company_affiliated applied to typed-in affiliations  *)
(***************************************************************************)
EXTENDS Integers, Sequences, FiniteSets, TLC

VARIABLES
    env_email,              \* os.environ.get("NCBI_EMAIL"); None is "None"
    arg_email,              \* the email argument of PubMedAPI(...)
    email,                  \* self.email
    min_request_interval,   \* self.min_request_interval, in ticks
    last_request_time,      \* self.last_request_time
    now,                    \* what time.time() returns
    op,                     \* the public operation in progress
    pc,                     \* its position
    phase,                  \* the remote call the current wait precedes
    current_time,           \* local of _wait_for_rate_limit
    time_since_last_request,\* local of _wait_for_rate_limit
    sleep_calls,            \* arguments of time.sleep in the latest wait
    starts,                 \* every value last_request_time was set to
    events,                 \* waits and remote calls of the latest operation
    min_companies,          \* argument of fetch_and_filter_papers
    record,                 \* Entrez.read(handle) of the latest search
    papers,                 \* Entrez.read(handle)["PubmedArticle"]
    result,                 \* outcome of the latest operation
    article,                \* SpecExtract: the article under extraction
    extracted,              \* SpecExtract: outcome of each helper
    affiliation,            \* SpecClassify: the affiliation string
    fragments,              \* SpecClassify: pieces typed so far
    verdict                 \* SpecClassify: is_company_affiliated(affiliation)

vars == << env_email, arg_email, email, min_request_interval, last_request_time, now,
           op, pc, phase, current_time, time_since_last_request, sleep_calls,
           starts, events, min_companies, record, papers, result,
           article, extracted, affiliation, fragments, verdict >>

apiVars == << env_email, arg_email, email, min_request_interval, last_request_time, now,
              op, pc, phase, current_time, time_since_last_request,
              sleep_calls, starts, events, min_companies, record, papers,
              result >>

extractVars == << article, extracted >>

classifyVars == << affiliation, fragments, verdict >>

(***************************************************************************)
(* Bounds of the model.                                                    *)
(***************************************************************************)
MaxInterval == 3     \* min_request_interval ranges over 1..MaxInterval ticks
MaxTicks == 5        \* ticks the clock may advance on its own
MaxOversleep == 1    \* ticks a sleep may last beyond its request
MaxCalls == 3        \* remote calls made through one instance
MaxMinCompanies == 2 \* min_companies ranges over 0..MaxMinCompanies
MaxPapers == 2       \* records in one fetched batch
MaxFragments == 2    \* pieces an affiliation is typed from
MaxAuthors == 2      \* authors of one article

(***************************************************************************)
(* Python values.                                                          *)
(***************************************************************************)
None == "None"

Return(v) == [kind |-> "return", value |-> v]

Raise(e) == [kind |-> "raise", exc |-> e]

Raised(r) == r.kind = "raise"

\* No call has been made, or the call has not finished.
NoResult == [kind |-> "none"]

\* dict.get(key, default)
Get(d, key, default) == IF key \in DOMAIN d THEN d[key] ELSE default

(***************************************************************************)
(* str.upper, str.lower, the `in` operator on strings.                     *)
(***************************************************************************)
ascii_lowercase ==
    << "a","b","c","d","e","f","g","h","i","j","k","l","m",
       "n","o","p","q","r","s","t","u","v","w","x","y","z" >>

ascii_uppercase ==
    << "A","B","C","D","E","F","G","H","I","J","K","L","M",
       "N","O","P","Q","R","S","T","U","V","W","X","Y","Z" >>

digits == << "0","1","2","3","4","5","6","7","8","9" >>

SharpS == "U+00DF"        \* LATIN SMALL LETTER SHARP S
CapitalSharpS == "U+1E9E" \* LATIN CAPITAL LETTER SHARP S
LongS == "U+017F"         \* LATIN SMALL LETTER LONG S
DotlessI == "U+0131"      \* LATIN SMALL LETTER DOTLESS I

Range(s) == { s[i] : i \in DOMAIN s }

IndexOf(c, s) == CHOOSE i \in DOMAIN s : s[i] = c

IsAscii(c) == c \notin { SharpS, CapitalSharpS, LongS, DotlessI }

Letters == Range(ascii_lowercase) \cup Range(ascii_uppercase)

\* The uppercase mapping of the cased characters (Unicode SpecialCasing
\* included: one character may map to two).
upper_map ==
    [c \in Letters \cup { SharpS, CapitalSharpS, LongS, DotlessI } |->
        IF c \in Range(ascii_lowercase) THEN << ascii_uppercase[IndexOf(c, ascii_lowercase)] >>
        ELSE IF c = SharpS THEN << "S", "S" >>
        ELSE IF c = LongS THEN << "S" >>
        ELSE IF c = DotlessI THEN << "I" >>
        ELSE << c >>]

\* The lowercase mapping of the cased characters.
lower_map ==
    [c \in Letters \cup { SharpS, CapitalSharpS, LongS, DotlessI } |->
        IF c \in Range(ascii_uppercase) THEN << ascii_lowercase[IndexOf(c, ascii_uppercase)] >>
        ELSE IF c = CapitalSharpS THEN << SharpS >>
        ELSE << c >>]

upper_char(c) == IF c \in DOMAIN upper_map THEN upper_map[c] ELSE << c >>

lower_char(c) == IF c \in DOMAIN lower_map THEN lower_map[c] ELSE << c >>

RECURSIVE str_upper(_)
str_upper(s) == IF s = << >> THEN << >> ELSE upper_char(Head(s)) \o str_upper(Tail(s))

RECURSIVE str_lower(_)
str_lower(s) == IF s = << >> THEN << >> ELSE lower_char(Head(s)) \o str_lower(Tail(s))

\* needle in hay
Contains(hay, needle) ==
    \/ needle = << >>
    \/ \E i \in 0..(Len(hay) - Len(needle)) :
          /\ hay[i + 1] = needle[1]
          /\ SubSeq(hay, i + 1, i + Len(needle)) = needle

(***************************************************************************)
(* filters.py                                                              *)
(***************************************************************************)
company_keywords ==
    << <<"I","n","c">>,
       <<"L","t","d">>,
       <<"L","L","C">>,
       <<"C","o","r","p","o","r","a","t","i","o","n">>,
       <<"C","o","r","p">>,
       <<"G","m","b","H">>,
       <<"P","h","a","r","m","a">>,
       <<"B","i","o","t","e","c","h">>,
       <<"T","h","e","r","a","p","e","u","t","i","c","s">>,
       <<"C","o","m","p","a","n","y">>,
       <<"C","o">>,
       <<"P","h","a","r","m","a","c","e","u","t","i","c","a","l","s">>,
       <<"B","i","o","t","e","c","h","n","o","l","o","g","y">>,
       <<"B","i","o","s","c","i","e","n","c","e","s">>,
       <<"L","a","b","s">>,
       <<"L","a","b","o","r","a","t","o","r","i","e","s">>,
       <<"T","e","c","h","n","o","l","o","g","i","e","s">> >>

non_company_keywords ==
    << <<"U","n","i","v","e","r","s","i","t","y">>,
       <<"I","n","s","t","i","t","u","t","e">>,
       <<"C","o","l","l","e","g","e">>,
       <<"S","c","h","o","o","l">>,
       <<"H","o","s","p","i","t","a","l">>,
       <<"M","e","d","i","c","a","l"," ","C","e","n","t","e","r">>,
       <<"C","l","i","n","i","c">>,
       <<"F","o","u","n","d","a","t","i","o","n">>,
       <<"R","e","s","e","a","r","c","h"," ","C","e","n","t","e","r">>,
       <<"A","c","a","d","e","m","y">>,
       <<"D","e","p","a","r","t","m","e","n","t"," ","o","f">>,
       <<"M","i","n","i","s","t","r","y"," ","o","f">>,
       <<"N","a","t","i","o","n","a","l">>,
       <<"F","e","d","e","r","a","l">> >>

\* keyword.upper(), for each keyword of the two lists
company_keywords_upper ==
    [k \in DOMAIN company_keywords |-> str_upper(company_keywords[k])]

non_company_keywords_upper ==
    [k \in DOMAIN non_company_keywords |-> str_upper(non_company_keywords[k])]

\* Faulty variant: the company keywords are looked at before the non-company ones.
is_company_affiliated_company_first(aff) ==
    LET affiliation_upper == str_upper(aff)
    IN  IF \E k \in DOMAIN company_keywords :
               Contains(affiliation_upper, company_keywords_upper[k])
        THEN TRUE
        ELSE FALSE

\* Faulty variant: the affiliation is compared as written, the keywords uppercased.
is_company_affiliated_case_sensitive(aff) ==
    IF \E k \in DOMAIN non_company_keywords :
           Contains(aff, non_company_keywords_upper[k])
    THEN FALSE
    ELSE IF \E k \in DOMAIN company_keywords :
                Contains(aff, company_keywords_upper[k])
         THEN TRUE
         ELSE FALSE

is_company_affiliated(aff) ==
    LET affiliation_upper == str_upper(aff)
    IN  IF \E k \in DOMAIN non_company_keywords :
               Contains(affiliation_upper, non_company_keywords_upper[k])
        THEN FALSE
        ELSE IF \E k \in DOMAIN company_keywords :
                    Contains(affiliation_upper, company_keywords_upper[k])
             THEN TRUE
             ELSE FALSE

(***************************************************************************)
(* api.py: the _extract_* helpers.  A dict is a function on its keys, a    *)
(* list a sequence; {} and [] are both the empty function.  A helper       *)
(* yields Return(value) or Raise(exception).                               *)
(***************************************************************************)
Word == Letters \cup Range(digits) \cup { "_", SharpS, CapitalSharpS, LongS, DotlessI }

\* \w
IsWord(c) == c \in Word

\* [\w\.-]
IsLocal(c) == IsWord(c) \/ c \in { ".", "-" }

Max(S) == CHOOSE x \in S : \A y \in S : y <= x

Min(S) == CHOOSE x \in S : \A y \in S : x <= y

\* The last index e >= i - 1 with s[i..e] all of one class: a greedy x+ from i.
RunEndLocal(s, i) ==
    Max({ e \in (i - 1)..Len(s) : \A k \in i..e : IsLocal(s[k]) })

RunEndWord(s, i) ==
    Max({ e \in (i - 1)..Len(s) : \A k \in i..e : IsWord(s[k]) })

\* Where a match of [\w\.-]+@[\w\.-]+\.\w+ that starts at i ends; 0 if none.
MatchEnd(s, i) ==
    LET at == RunEndLocal(s, i) + 1
    IN  IF at > i /\ at <= Len(s) /\ s[at] = "@"
        THEN LET e == RunEndLocal(s, at + 1)
                 dots == { d \in (at + 2)..(e - 1) : s[d] = "." /\ IsWord(s[d + 1]) }
             IN  IF dots = {} THEN 0 ELSE RunEndWord(s, Max(dots) + 1)
        ELSE 0

\* re.search(r'[\w\.-]+@[\w\.-]+\.\w+', s): the leftmost match, << >> for None
re_search_email(s) ==
    LET from == { i \in 1..Len(s) : MatchEnd(s, i) > 0 }
    IN  IF from = {} THEN << >> ELSE SubSeq(s, Min(from), MatchEnd(s, Min(from)))

_extract_publication_date(art) ==
    LET dates == Get(art, "ArticleDate", << << >> >>)
    IN  IF dates = << >>
        THEN Return("")                                  \* IndexError, caught
        ELSE LET pub_date == dates[1]
             IN  IF pub_date # << >>
                 THEN Return(Get(pub_date, "Year", "") \o "-" \o Get(pub_date, "Month", "")
                                 \o "-" \o Get(pub_date, "Day", ""))
                 ELSE IF /\ "Journal" \in DOMAIN art
                         /\ "JournalIssue" \in DOMAIN art["Journal"]
                         /\ "PubDate" \in DOMAIN art["Journal"]["JournalIssue"]
                      THEN Return(Get(art["Journal"]["JournalIssue"]["PubDate"], "Year", ""))
                      ELSE Return("")                    \* KeyError, caught

\* The loop body of _extract_authors for one author.
author_data(author) ==
    LET info == Get(author, "AffiliationInfo", << << >> >>)
    IN  IF info = << >>
        THEN Raise("IndexError")                         \* [][0], not caught
        ELSE Return([last_name |-> Get(author, "LastName", ""),
                     first_name |-> Get(author, "ForeName", ""),
                     affiliation |-> Get(info[1], "Affiliation", << >>)])

RECURSIVE extract_authors_loop(_, _)
extract_authors_loop(author_list, authors) ==
    IF author_list = << >>
    THEN Return(authors)
    ELSE LET data == author_data(Head(author_list))
         IN  IF Raised(data)
             THEN data
             ELSE extract_authors_loop(Tail(author_list), Append(authors, data.value))

_extract_authors(art) ==
    IF "AuthorList" \notin DOMAIN art
    THEN Return(<< >>)                                   \* KeyError, caught
    ELSE extract_authors_loop(art["AuthorList"], << >>)

\* Every affiliation entry of every author of the list, in order.
RECURSIVE AffiliationEntries(_)
AffiliationEntries(author_list) ==
    IF author_list = << >>
    THEN << >>
    ELSE Get(Head(author_list), "AffiliationInfo", << >>)
             \o AffiliationEntries(Tail(author_list))

\* The value is the set the code builds; list(set) orders it arbitrarily.
_extract_affiliations(art) ==
    IF "AuthorList" \notin DOMAIN art
    THEN Return({})                                      \* KeyError, caught
    ELSE LET entries == AffiliationEntries(art["AuthorList"])
         IN  Return({ entries[i]["Affiliation"] :
                        i \in { j \in DOMAIN entries : "Affiliation" \in DOMAIN entries[j] } })

email_word == << "e", "m", "a", "i", "l" >>

\* The first entry, in order, whose text passes the filter and has a match.
_extract_corresponding_email(art) ==
    IF "AuthorList" \notin DOMAIN art
    THEN Return(<< >>)                                   \* KeyError, caught
    ELSE LET entries == AffiliationEntries(art["AuthorList"])
             text(i) == Get(entries[i], "Affiliation", << >>)
             hits == { i \in DOMAIN entries :
                         /\ \/ Contains(str_lower(text(i)), email_word)
                            \/ Contains(text(i), << "@" >>)
                         /\ re_search_email(text(i)) # << >> }
         IN  IF hits = {} THEN Return(<< >>) ELSE Return(re_search_email(text(Min(hits))))

(***************************************************************************)
(* api.py: the loop of fetch_and_filter_papers over the fetched records.   *)
(***************************************************************************)
company_count(affiliations) ==
    Cardinality({ aff \in affiliations : is_company_affiliated(aff) })

\* The dict literal of lines 107-114: the first lookup or helper that raises
\* ends the evaluation.
paper_data(paper) ==
    IF "MedlineCitation" \notin DOMAIN paper \/ "Article" \notin DOMAIN paper["MedlineCitation"]
    THEN Raise("KeyError")
    ELSE LET art == paper["MedlineCitation"]["Article"]
         IN  IF "PMID" \notin DOMAIN paper["MedlineCitation"] THEN Raise("KeyError")
             ELSE IF "ArticleTitle" \notin DOMAIN art THEN Raise("KeyError")
             ELSE IF Raised(_extract_authors(art)) THEN _extract_authors(art)
             ELSE Return([pmid |-> paper["MedlineCitation"]["PMID"],
                          title |-> art["ArticleTitle"],
                          publication_date |-> _extract_publication_date(art).value,
                          authors |-> _extract_authors(art).value,
                          affiliations |-> _extract_affiliations(art).value,
                          corresponding_email |-> _extract_corresponding_email(art).value])

RECURSIVE filter_loop(_, _, _)
filter_loop(batch, threshold, filtered_papers) ==
    IF batch = << >>
    THEN Return(filtered_papers)
    ELSE LET data == paper_data(Head(batch))
         IN  IF Raised(data)
             THEN data
             ELSE filter_loop(Tail(batch), threshold,
                      IF company_count(data.value.affiliations) >= threshold
                      THEN Append(filtered_papers, data.value)
                      ELSE filtered_papers)

(***************************************************************************)
(* api.py: one PubMedAPI object.                                           *)
(*                                                                         *)
(* pc: "new" (not constructed), "construct_failed", "idle" (constructed,   *)
(* no operation in progress), "wait_read" / "wait_sleep" / "wait_record"   *)
(* (lines 35-37, 38 and 39 of _wait_for_rate_limit) and "request" (the     *)
(* remote call that follows the wait).  The clock may advance between any  *)
(* two of these steps.                                                     *)
(***************************************************************************)
\* time.time() at construction: far more than any interval after 1970.
Epoch == MaxInterval + MaxTicks

Horizon == Epoch + MaxTicks

Emails == { None, "", "arg@example.com" }

EnvEmails == { None, "", "env@example.com" }

IdLists == { << >>, << "12345" >>, << "12345", "67890" >> }

\* bool(x) of a string or None
Truthy(x) == x # None /\ x # ""

\* x or y
Or(x, y) == IF Truthy(x) THEN x ELSE y

\* Faulty variant: the environment value is preferred to the argument.
ConstructedEmailEnvFirst(arg, env) == Or(env, arg)

\* self.email = email or os.environ.get("NCBI_EMAIL")
ConstructedEmail(arg, env) == Or(arg, env)

\* PubMedAPI(email, requests_per_second), requests_per_second = 1 / interval
Construct ==
    /\ pc = "new"
    /\ \E arg \in Emails, interval \in 1..MaxInterval :
         /\ arg_email' = arg
         /\ email' = ConstructedEmail(arg, env_email)
         /\ IF ~Truthy(email')
            THEN /\ pc' = "construct_failed"
                 /\ result' = Raise("ValueError")
                 /\ UNCHANGED << min_request_interval, last_request_time >>
            ELSE /\ pc' = "idle"
                 /\ min_request_interval' = interval
                 /\ last_request_time' = 0
                 /\ result' = NoResult
    /\ UNCHANGED << env_email, now, op, phase, current_time, time_since_last_request,
                    sleep_calls, starts, events, min_companies, record, papers,
                    extractVars, classifyVars >>

Constructed == pc \notin { "new", "construct_failed", "unused" }

\* Time passes.
Tick ==
    /\ Constructed
    /\ now < Horizon
    /\ now' = now + 1
    /\ UNCHANGED << env_email, arg_email, email, min_request_interval, last_request_time,
                    op, pc, phase, current_time, time_since_last_request, sleep_calls,
                    starts, events, min_companies, record, papers, result,
                    extractVars, classifyVars >>

Begin(operation, remote_calls) ==
    /\ pc = "idle"
    /\ Len(starts) + remote_calls <= MaxCalls
    /\ op' = operation
    /\ pc' = "wait_read"
    /\ events' = << >>
    /\ record' = NoResult
    /\ papers' = << >>
    /\ result' = NoResult
    /\ UNCHANGED << env_email, arg_email, email, min_request_interval, last_request_time,
                    now, current_time, time_since_last_request, sleep_calls, starts,
                    extractVars, classifyVars >>

BeginSearchPubmed ==
    /\ Begin("search_pubmed", 1)
    /\ phase' = "esearch.fcgi"
    /\ UNCHANGED min_companies

BeginFetchDetails ==
    /\ Begin("fetch_details", 1)
    /\ phase' = "efetch.fcgi"
    /\ UNCHANGED min_companies

BeginFetchAndFilterPapers ==
    /\ Begin("fetch_and_filter_papers", 2)
    /\ phase' = "esearch"
    /\ min_companies' \in 0..MaxMinCompanies

\* Faulty variant: the wait also sleeps when exactly the interval has elapsed.
TooSoonOrJustInTime(elapsed) == elapsed <= min_request_interval

\* the test of line 37
TooSoon(elapsed) == elapsed < min_request_interval

\* the argument of time.sleep, line 38
SleepDuration == min_request_interval - time_since_last_request

\* _wait_for_rate_limit, lines 35-37
WaitRead ==
    /\ pc = "wait_read"
    /\ current_time' = now
    /\ time_since_last_request' = now - last_request_time
    /\ sleep_calls' = << >>
    /\ pc' = IF TooSoon(time_since_last_request') THEN "wait_sleep" ELSE "wait_record"
    /\ UNCHANGED << env_email, arg_email, email, min_request_interval, last_request_time,
                    now, op, phase, starts, events, min_companies, record, papers,
                    result, extractVars, classifyVars >>

\* _wait_for_rate_limit, line 38: the sleep lasts at least what was asked.
WaitSleep ==
    /\ pc = "wait_sleep"
    /\ \E over \in 0..MaxOversleep : now' = now + SleepDuration + over
    /\ sleep_calls' = Append(sleep_calls, SleepDuration)
    /\ pc' = "wait_record"
    /\ UNCHANGED << env_email, arg_email, email, min_request_interval, last_request_time,
                    op, phase, current_time, time_since_last_request, starts, events,
                    min_companies, record, papers, result, extractVars, classifyVars >>

\* Faulty variant: the time read before the sleep is recorded.
RecordedTimeBeforeSleep == current_time

\* time.time() of line 39
RecordedTime == now

\* _wait_for_rate_limit, line 39
WaitRecord ==
    /\ pc = "wait_record"
    /\ last_request_time' = RecordedTime
    /\ starts' = Append(starts, last_request_time')
    /\ events' = Append(events, [call |-> "wait"])
    /\ pc' = "request"
    /\ UNCHANGED << env_email, arg_email, email, min_request_interval, now, op, phase,
                    current_time, time_since_last_request, sleep_calls, min_companies,
                    record, papers, result, extractVars, classifyVars >>

Finish(outcome) ==
    /\ result' = outcome
    /\ pc' = "idle"

\* search_pubmed, lines 45-55: raise_for_status() raises or the ids come back.
SearchPubmedRequest ==
    /\ pc = "request" /\ op = "search_pubmed"
    /\ events' = Append(events, [call |-> phase])
    /\ \/ Finish(Raise("HTTPError"))
       \/ \E ids \in IdLists : Finish(Return(ids))
    /\ UNCHANGED << env_email, arg_email, email, min_request_interval, last_request_time,
                    now, op, phase, current_time, time_since_last_request, sleep_calls,
                    starts, min_companies, record, papers, extractVars, classifyVars >>

\* fetch_details, lines 61-70
FetchDetailsRequest ==
    /\ pc = "request" /\ op = "fetch_details"
    /\ events' = Append(events, [call |-> phase])
    /\ \/ Finish(Raise("HTTPError"))
       \/ Finish(Return("response.text"))
    /\ UNCHANGED << env_email, arg_email, email, min_request_interval, last_request_time,
                    now, op, phase, current_time, time_since_last_request, sleep_calls,
                    starts, min_companies, record, papers, extractVars, classifyVars >>

\* Faulty variant: the fetch is issued whatever the search returned.
AfterSearchAlwaysFetch(ids) ==
    /\ pc' = "wait_read"
    /\ phase' = "efetch"
    /\ UNCHANGED result

\* fetch_and_filter_papers, lines 92-97
AfterSearch(ids) ==
    IF ids = << >>
    THEN Finish(Return(<< >>)) /\ UNCHANGED phase
    ELSE /\ pc' = "wait_read"
         /\ phase' = "efetch"
         /\ UNCHANGED result

\* fetch_and_filter_papers, lines 88-97
EsearchRequest ==
    /\ pc = "request" /\ op = "fetch_and_filter_papers" /\ phase = "esearch"
    /\ events' = Append(events, [call |-> phase])
    /\ \/ Finish(Raise("URLError")) /\ UNCHANGED << record, phase >>
       \/ \E ids \in IdLists : record' = Return([IdList |-> ids]) /\ AfterSearch(ids)
    /\ UNCHANGED << env_email, arg_email, email, min_request_interval, last_request_time,
                    now, op, current_time, time_since_last_request, sleep_calls,
                    starts, min_companies, papers, extractVars, classifyVars >>

\* fetch_and_filter_papers, lines 98-122: the records come back and are filtered.
EfetchRequest(Batches) ==
    /\ pc = "request" /\ op = "fetch_and_filter_papers" /\ phase = "efetch"
    /\ events' = Append(events, [call |-> phase, id |-> record.value["IdList"]])
    /\ \/ Finish(Raise("URLError")) /\ UNCHANGED papers
       \/ \E batch \in Batches :
            /\ papers' = batch
            /\ Finish(filter_loop(batch, min_companies, << >>))
    /\ UNCHANGED << env_email, arg_email, email, min_request_interval, last_request_time,
                    now, op, phase, current_time, time_since_last_request, sleep_calls,
                    starts, min_companies, record, extractVars, classifyVars >>

(***************************************************************************)
(* What the remote service may answer: records as Entrez.read returns      *)
(* them, with every optional part present, empty or missing.               *)
(***************************************************************************)
PfizerInc == <<"P","f","i","z","e","r"," ","I","n","c",".">>

HarvardUniversity == <<"H","a","r","v","a","r","d"," ","U","n","i","v","e","r","s","i","t","y">>

BioNTechGmbH == <<"B","i","o","N","T","e","c","h"," ","G","m","b","H">>

ContactJaneDoe ==
    <<"D","e","p","t",","," ","c","o","n","t","a","c","t",":"," ",
      "j","a","n","e",".","d","o","e","@","b","i","o","t","e","c","h",".","c","o","m">>

Smith == [LastName |-> "Smith", ForeName |-> "John",
          AffiliationInfo |-> << [Affiliation |-> PfizerInc] >>]

Lee == [LastName |-> "Lee",
        AffiliationInfo |-> << [Affiliation |-> PfizerInc] >>]

Doe == [LastName |-> "Doe", ForeName |-> "Jane",
        AffiliationInfo |-> << [Affiliation |-> HarvardUniversity],
                               [Affiliation |-> BioNTechGmbH] >>]

Kim == [LastName |-> "Kim", ForeName |-> "Min",
        AffiliationInfo |-> << [Affiliation |-> ContactJaneDoe] >>]

\* an affiliation entry without its text
Ng == [LastName |-> "Ng", ForeName |-> "An",
       AffiliationInfo |-> << [Identifier |-> "ROR"] >>]

\* an empty list of affiliation entries
Roe == [LastName |-> "Roe", ForeName |-> "Ann", AffiliationInfo |-> << >>]

\* no affiliation entries at all
Poe == [LastName |-> "Poe", ForeName |-> "Al"]

Authors == { Smith, Lee, Doe, Kim, Ng, Roe, Poe }

\* AuthorList: missing, or up to MaxAuthors authors
AuthorListParts ==
    { << >> } \cup { "AuthorList" :> a : a \in UNION { [1..n -> Authors] : n \in 0..MaxAuthors } }

\* ArticleDate: missing, an empty list, or one sub-record (empty, partial, full)
ArticleDateParts ==
    { << >> } \cup
    { "ArticleDate" :> d :
        d \in { << >>,
                << << >> >>,
                << [Year |-> "2023"] >>,
                << [Year |-> "2023", Month |-> "05", Day |-> "17"] >> } }

\* Journal: missing, or with less and less of JournalIssue.PubDate.Year missing
JournalParts ==
    { << >> } \cup
    { "Journal" :> j :
        j \in { [Title |-> "J"],
                [JournalIssue |-> [Volume |-> "1"]],
                [JournalIssue |-> [PubDate |-> [MedlineDate |-> "2023 Spring"]]],
                [JournalIssue |-> [PubDate |-> [Year |-> "2021"]]] } }

Articles ==
    { ("ArticleTitle" :> "Test Paper 1") @@ d @@ j @@ a :
        d \in ArticleDateParts, j \in JournalParts, a \in AuthorListParts }

\* The records of SpecData: with and without identifier, over the author
\* lists that decide the company count or make a helper raise.
DataAuthorListParts ==
    { << >> } \cup
    { "AuthorList" :> a :
        a \in { << >>, << Smith >>, << Smith, Lee >>, << Smith, Doe >>,
                << Doe >>, << Kim >>, << Roe >>, << Poe, Ng >> } }

Journal2023 == "Journal" :> [JournalIssue |-> [PubDate |-> [Year |-> "2023"]]]

Papers ==
    { [MedlineCitation |-> pmid @@ ("Article" :> (("ArticleTitle" :> "Test Paper 1")
                                                   @@ Journal2023 @@ a))] :
        pmid \in { << >>, "PMID" :> "12345" }, a \in DataAuthorListParts }

Batches == UNION { [1..n -> Papers] : n \in 0..MaxPapers }

\* The batch of tests/test_api.py, and the same with a second record.
TestPaper ==
    [MedlineCitation |->
        [PMID |-> "12345",
         Article |-> [ArticleTitle |-> "Test Paper 1",
                      AuthorList |-> << Smith >>,
                      Journal |-> [JournalIssue |-> [PubDate |-> [Year |-> "2023"]]]]]]

TestBatches ==
    { << TestPaper >>,
      << TestPaper,
         [MedlineCitation |->
            [PMID |-> "67890",
             Article |-> [ArticleTitle |-> "Test Paper 2",
                          ArticleDate |-> << >>,
                          AuthorList |-> << Doe >>]]] >> }

(***************************************************************************)
(* The parts of the state a specification does not use.                    *)
(***************************************************************************)
InitApiUnused ==
    /\ env_email = None
    /\ arg_email = None
    /\ email = None
    /\ min_request_interval = 1
    /\ last_request_time = 0
    /\ now = 0
    /\ op = "none"
    /\ pc = "unused"
    /\ phase = "none"
    /\ current_time = 0
    /\ time_since_last_request = 0
    /\ sleep_calls = << >>
    /\ starts = << >>
    /\ events = << >>
    /\ min_companies = 1
    /\ record = NoResult
    /\ papers = << >>
    /\ result = NoResult

InitExtractUnused ==
    /\ article = << >>
    /\ extracted = << >>

InitClassifyUnused ==
    /\ affiliation = << >>
    /\ fragments = 0
    /\ verdict = NoResult

(***************************************************************************)
(* Spec: an object is constructed and used by one thread.                  *)
(***************************************************************************)
Init ==
    /\ env_email \in EnvEmails
    /\ arg_email = None
    /\ email = None
    /\ min_request_interval = 1
    /\ last_request_time = 0
    /\ now = Epoch
    /\ op = "none"
    /\ pc = "new"
    /\ phase = "none"
    /\ current_time = 0
    /\ time_since_last_request = 0
    /\ sleep_calls = << >>
    /\ starts = << >>
    /\ events = << >>
    /\ min_companies = 1
    /\ record = NoResult
    /\ papers = << >>
    /\ result = NoResult
    /\ InitExtractUnused
    /\ InitClassifyUnused

Efetch == EfetchRequest(TestBatches)

Next ==
    \/ Construct
    \/ Tick
    \/ BeginSearchPubmed
    \/ BeginFetchDetails
    \/ BeginFetchAndFilterPapers
    \/ WaitRead
    \/ WaitSleep
    \/ WaitRecord
    \/ SearchPubmedRequest
    \/ FetchDetailsRequest
    \/ EsearchRequest
    \/ Efetch

Spec == Init /\ [][Next]_vars

(***************************************************************************)
(* SpecData: fetch_and_filter_papers on a constructed object, the remote   *)
(* service answering with any batch of Papers.                             *)
(***************************************************************************)
InitData ==
    /\ env_email = None
    /\ arg_email = "arg@example.com"
    /\ email = "arg@example.com"
    /\ min_request_interval \in 1..MaxInterval
    /\ last_request_time = 0
    /\ now = Epoch
    /\ op = "none"
    /\ pc = "idle"
    /\ phase = "none"
    /\ current_time = 0
    /\ time_since_last_request = 0
    /\ sleep_calls = << >>
    /\ starts = << >>
    /\ events = << >>
    /\ min_companies = 1
    /\ record = NoResult
    /\ papers = << >>
    /\ result = NoResult
    /\ InitExtractUnused
    /\ InitClassifyUnused

EfetchData == EfetchRequest(Batches)

NextData ==
    \/ BeginFetchAndFilterPapers
    \/ WaitRead
    \/ WaitSleep
    \/ WaitRecord
    \/ EsearchRequest
    \/ EfetchData

SpecData == InitData /\ [][NextData]_vars

(***************************************************************************)
(* SpecExtract: the four helpers, each applied once to one article.        *)
(***************************************************************************)
InitExtract ==
    /\ InitApiUnused
    /\ InitClassifyUnused
    /\ article \in Articles
    /\ extracted = << >>

Extract(field, outcome) ==
    /\ field \notin DOMAIN extracted
    /\ extracted' = extracted @@ (field :> outcome)
    /\ UNCHANGED << article, apiVars, classifyVars >>

ExtractPublicationDate == Extract("publication_date", _extract_publication_date(article))

ExtractAuthors == Extract("authors", _extract_authors(article))

ExtractAffiliations == Extract("affiliations", _extract_affiliations(article))

ExtractCorrespondingEmail ==
    Extract("corresponding_email", _extract_corresponding_email(article))

NextExtract ==
    \/ ExtractPublicationDate
    \/ ExtractAuthors
    \/ ExtractAffiliations
    \/ ExtractCorrespondingEmail

SpecExtract == InitExtract /\ [][NextExtract]_vars

(***************************************************************************)
(* SpecClassify: an affiliation is typed in from pieces (the keywords as   *)
(* written in filters.py, and filler text), its case may be changed with   *)
(* str.upper / str.lower, and is_company_affiliated is applied to it.      *)
(***************************************************************************)
Filler ==
    { <<"P","f","i","z","e","r"," ">>,
      <<"L","a","b">>,
      <<"n","c">>,
      <<SharpS>>,
      <<CapitalSharpS>>,
      <<LongS>>,
      <<DotlessI>> }

Fragments == Range(company_keywords) \cup Range(non_company_keywords) \cup Filler

InitClassify ==
    /\ InitApiUnused
    /\ InitExtractUnused
    /\ affiliation = << >>
    /\ fragments = 0
    /\ verdict = NoResult

TypeFragment ==
    /\ fragments < MaxFragments
    /\ \E f \in Fragments : affiliation' = affiliation \o f
    /\ fragments' = fragments + 1
    /\ verdict' = NoResult
    /\ UNCHANGED << apiVars, extractVars >>

Uppercase ==
    /\ affiliation' = str_upper(affiliation)
    /\ affiliation' # affiliation
    /\ verdict' = NoResult
    /\ UNCHANGED << fragments, apiVars, extractVars >>

Lowercase ==
    /\ affiliation' = str_lower(affiliation)
    /\ affiliation' # affiliation
    /\ verdict' = NoResult
    /\ UNCHANGED << fragments, apiVars, extractVars >>

Classify ==
    /\ verdict = NoResult
    /\ verdict' = Return(is_company_affiliated(affiliation))
    /\ UNCHANGED << affiliation, fragments, apiVars, extractVars >>

NextClassify == TypeFragment \/ Uppercase \/ Lowercase \/ Classify

SpecClassify == InitClassify /\ [][NextClassify]_vars

(***************************************************************************)
(* What the claims call "contains as a case-insensitive substring": the    *)
(* keyword occurs in the string letter by letter, A-Z matching a-z.        *)
(***************************************************************************)
fold_map == [c \in Range(ascii_uppercase) |-> ascii_lowercase[IndexOf(c, ascii_uppercase)]]

Fold(c) == IF c \in DOMAIN fold_map THEN fold_map[c] ELSE c

ContainsIgnoreCase(s, k) ==
    \E i \in 0..(Len(s) - Len(k)) : \A j \in 1..Len(k) : Fold(s[i + j]) = Fold(k[j])

HasNonCompanyKeyword(s) ==
    \E k \in DOMAIN non_company_keywords : ContainsIgnoreCase(s, non_company_keywords[k])

HasCompanyKeyword(s) ==
    \E k \in DOMAIN company_keywords : ContainsIgnoreCase(s, company_keywords[k])

AllAscii(s) == \A i \in DOMAIN s : IsAscii(s[i])

Classified == verdict.kind = "return"

\* C2: an affiliation that contains a non-company keyword and a company
\* keyword, in any order and any letter case, is classified non-company.
C2_NonCompanyPrecedence ==
    (Classified /\ HasNonCompanyKeyword(affiliation) /\ HasCompanyKeyword(affiliation))
        => verdict.value = FALSE

\* A company keyword typed before a non-company keyword, then classified.
C2_Witness ==
    /\ Classified
    /\ verdict.value = FALSE
    /\ affiliation = <<"P","H","A","R","M","A">> \o <<"U","n","i","v","e","r","s","i","t","y">>

\* C3 as stated: without a non-company keyword the verdict is "a company
\* keyword is a substring", and it is the verdict of the all-uppercase and of
\* the all-lowercase form of the string.
C3_AsStated ==
    (Classified /\ ~HasNonCompanyKeyword(affiliation))
        => /\ verdict.value = HasCompanyKeyword(affiliation)
           /\ verdict.value = is_company_affiliated(str_upper(affiliation))
           /\ verdict.value = is_company_affiliated(str_lower(affiliation))

\* C3 amended: the three statements hold of ASCII affiliations; of any
\* affiliation the verdict is that of its all-uppercase form.
C3_AsciiCaseInsensitive ==
    Classified
        => /\ verdict.value = is_company_affiliated(str_upper(affiliation))
           /\ AllAscii(affiliation)
                => verdict.value = is_company_affiliated(str_lower(affiliation))
           /\ (AllAscii(affiliation) /\ ~HasNonCompanyKeyword(affiliation))
                => verdict.value = HasCompanyKeyword(affiliation)

\* A lower-cased company keyword after filler text, classified a company.
C3_Witness ==
    /\ Classified
    /\ verdict.value = TRUE
    /\ affiliation = <<"p","f","i","z","e","r"," ">> \o <<"i","n","c">>

(***************************************************************************)
(* The rate limiter and the order of remote calls (Spec).                  *)
(***************************************************************************)
\* C1: of any two consecutive recorded call starts on one instance, the
\* second is at least min_request_interval after the first, whichever of the
\* three operations made the calls.
C1_MinimumSpacing ==
    \A i \in 1..(Len(starts) - 1) : starts[i + 1] - starts[i] >= min_request_interval

\* Three calls, the last one by fetch_and_filter_papers after a sleep, two of
\* them exactly one interval apart and two of them further apart.
C1_Witness ==
    /\ Len(starts) = 3
    /\ op = "fetch_and_filter_papers"
    /\ sleep_calls # << >>
    /\ \E i \in 1..2 : starts[i + 1] - starts[i] = min_request_interval
    /\ \E i \in 1..2 : starts[i + 1] - starts[i] > min_request_interval

\* The recorded call time before the wait that has just completed (0 on a
\* fresh instance), and the time elapsed since then when the wait began.
PreviousStart == IF Len(starts) >= 2 THEN starts[Len(starts) - 1] ELSE 0

Elapsed == current_time - PreviousStart

\* C5: construction fails (ValueError, the configuration error of the code)
\* exactly when neither the argument nor NCBI_EMAIL gives a non-empty email;
\* otherwise it succeeds with the argument if non-empty, else NCBI_EMAIL.
C5_EmailRequired ==
    /\ pc = "construct_failed"
         <=> (pc # "new" /\ ~Truthy(arg_email) /\ ~Truthy(env_email))
    /\ pc = "construct_failed" => result = Raise("ValueError")
    /\ Constructed => /\ Truthy(email)
                      /\ email = IF Truthy(arg_email) THEN arg_email ELSE env_email

\* Both sources give an email and the object holds the argument's.
C5_Witness ==
    /\ Constructed
    /\ Truthy(env_email)
    /\ Truthy(arg_email)
    /\ email = arg_email

\* C9: a completed wait has called time.sleep exactly when less than the
\* interval had elapsed since the last recorded call time, once, with the
\* interval minus the elapsed time; the first wait of an instance has not
\* slept; the time recorded is the clock's after the wait.
C9_SleepIffTooSoon ==
    pc = "request"
        => /\ sleep_calls = IF Elapsed < min_request_interval
                            THEN << min_request_interval - Elapsed >>
                            ELSE << >>
           /\ Len(starts) = 1 => sleep_calls = << >>
           /\ last_request_time = starts[Len(starts)]
           /\ last_request_time <= now
           /\ \A i \in DOMAIN sleep_calls : last_request_time >= current_time + sleep_calls[i]

\* The second wait begins at the very time the first one recorded, and has
\* slept once, for the whole interval.
C9_Witness ==
    /\ pc = "request"
    /\ Len(starts) = 2
    /\ current_time = starts[1]
    /\ sleep_calls = << min_request_interval >>

Calls == [i \in DOMAIN events |-> events[i].call]

FullRun == << "wait", "esearch", "wait", "efetch" >>

InFetchAndFilter == op = "fetch_and_filter_papers"

SearchAnswered == record.kind = "return"

\* C10: a run of fetch_and_filter_papers is a wait, the search, and then,
\* only if the search reported identifiers, one more wait and one fetch of
\* exactly those identifiers; after an empty search the run has returned the
\* empty list.
C10_SearchThenFetch ==
    InFetchAndFilter
        => /\ Calls = SubSeq(FullRun, 1, Len(events))
           /\ (SearchAnswered /\ record.value["IdList"] = << >>)
                => /\ pc = "idle"
                   /\ result = Return(<< >>)
                   /\ Calls = << "wait", "esearch" >>
           /\ (SearchAnswered /\ record.value["IdList"] # << >> /\ pc = "idle")
                => Calls = FullRun
           /\ Len(events) = 4
                => /\ SearchAnswered
                   /\ events[4].id = record.value["IdList"]
                   /\ events[4].id # << >>

\* A run that searched, got two identifiers, fetched and returned.
C10_Witness ==
    /\ InFetchAndFilter
    /\ pc = "idle"
    /\ Calls = FullRun
    /\ events[4].id = << "12345", "67890" >>
    /\ result.kind = "return"

(***************************************************************************)
(* Extraction and filtering (SpecExtract, SpecData).                       *)
(***************************************************************************)
\* What the claims call the record-level affiliations of an article: every
\* distinct affiliation text of any entry of any author.
RecordAffiliations(art) ==
    IF "AuthorList" \notin DOMAIN art
    THEN {}
    ELSE { e["Affiliation"] :
             e \in { x \in UNION { Range(Get(art["AuthorList"][a], "AffiliationInfo", << >>)) :
                                     a \in DOMAIN art["AuthorList"] } :
                       "Affiliation" \in DOMAIN x } }

CompanyAffiliations(art) == { aff \in RecordAffiliations(art) : is_company_affiliated(aff) }

ArticleOf(paper) == paper["MedlineCitation"]["Article"]

MeetsThreshold(paper) == Cardinality(CompanyAffiliations(ArticleOf(paper))) >= min_companies

Fetched == InFetchAndFilter /\ pc = "idle" /\ Calls = FullRun /\ result # Raise("URLError")

\* C4: the records fetch_and_filter_papers returns are, in order, exactly
\* the fetched records whose number of distinct company-classified
\* affiliation strings is at least min_companies.
C4_RetainedIffThreshold ==
    Fetched
        => /\ result.kind = "return"
           /\ [i \in DOMAIN result.value |-> result.value[i].affiliations]
                = [i \in DOMAIN SelectSeq(papers, MeetsThreshold) |->
                       RecordAffiliations(ArticleOf(SelectSeq(papers, MeetsThreshold)[i]))]

HasNoIdentifier(paper) == "PMID" \notin DOMAIN paper["MedlineCitation"]

HasEmptyAffiliationInfo(art) ==
    /\ "AuthorList" \in DOMAIN art
    /\ \E a \in DOMAIN art["AuthorList"] :
         /\ "AffiliationInfo" \in DOMAIN art["AuthorList"][a]
         /\ art["AuthorList"][a]["AffiliationInfo"] = << >>

\* C7: a batch with a record that has no identifier (and nothing else
\* unusual) is still processed: fetch_and_filter_papers returns.
C7_MissingIdentifierTolerated ==
    ( /\ Fetched
      /\ \E i \in DOMAIN papers : HasNoIdentifier(papers[i])
      /\ \A i \in DOMAIN papers : ~HasEmptyAffiliationInfo(ArticleOf(papers[i])) )
        => result.kind = "return"

\* C6: no helper raises, whatever is missing from or empty in the article,
\* and an article without author list yields the empty values.
C6_ExtractionNeverRaises ==
    /\ \A f \in DOMAIN extracted : extracted[f].kind = "return"
    /\ "AuthorList" \notin DOMAIN article
         => /\ "authors" \in DOMAIN extracted => extracted["authors"] = Return(<< >>)
            /\ "affiliations" \in DOMAIN extracted => extracted["affiliations"] = Return({})
            /\ "corresponding_email" \in DOMAIN extracted
                 => extracted["corresponding_email"] = Return(<< >>)

\* The article-date sub-record, if the article has a non-empty one.
HasArticleDate(art) ==
    /\ "ArticleDate" \in DOMAIN art
    /\ art["ArticleDate"] # << >>
    /\ art["ArticleDate"][1] # << >>

HasPubDate(art) ==
    /\ "Journal" \in DOMAIN art
    /\ "JournalIssue" \in DOMAIN art["Journal"]
    /\ "PubDate" \in DOMAIN art["Journal"]["JournalIssue"]

\* C8: the date is Year-Month-Day of the article-date sub-record when there
\* is one, else the year of the journal issue's publication date, else "".
C8_PublicationDate ==
    "publication_date" \in DOMAIN extracted
        => extracted["publication_date"] =
             Return(IF HasArticleDate(article)
                    THEN Get(article["ArticleDate"][1], "Year", "") \o "-"
                           \o Get(article["ArticleDate"][1], "Month", "") \o "-"
                           \o Get(article["ArticleDate"][1], "Day", "")
                    ELSE IF HasPubDate(article)
                         THEN Get(article["Journal"]["JournalIssue"]["PubDate"], "Year", "")
                         ELSE "")

====
